---- MODULE Spec2Model ----
(***************************************************************************)
(* CodeExecutorAgent (autogen_agentchat/agents/_code_executor_agent.py).   *)
(*                                                                         *)
(* The agent is driven from call sites.  A call site is either idle or     *)
(* holds one call of on_messages, on_reset or produced_message_types.      *)
(* on_messages runs atomically up to its only await (the executor          *)
(* invocation, line 83) and atomically again from the executor's           *)
(* completion to its return or raise.  Spec drives the agent from one call *)
(* site with every batch of up to MaxMsgs messages; SpecConc drives it     *)
(* from two call sites whose calls overlap.                                *)
(***************************************************************************)
EXTENDS Integers, Sequences, FiniteSets, TLC

VARIABLES
  agent,      \* self: name, description, _code_executor
  calls,      \* per call site: the call it holds and how far it has got
  executed,   \* per call site: the executor invocations made by its call
  cancelled,  \* per cancellation token: whether it has been cancelled
  resets      \* history: how many on_reset calls have run

vars == <<agent, calls, executed, cancelled, resets>>

----------------------------------------------------------------------------
(* Bounds and input domains *)

MaxMsgs == 2

MaxResets == 2

Sites == {"c1"}

ConcSites == {"c1", "c2"}

Tokens == {"t1", "t2"}

AgentName == "code_executor"

\* The default of line 65, without its backquotes.
DefaultDescription ==
  "A computer terminal that performs no other action than running Python scripts (provided to it quoted in python code blocks), or sh shell scripts (provided to it quoted in sh code blocks)."

Text(s) == [kind |-> "text", lang |-> "", text |-> s]

Fence(l) == [kind |-> "fence", lang |-> l, text |-> ""]

TextMessage(c, s) == [type |-> "TextMessage", content |-> c, source |-> s]

StopMessage(c, s) == [type |-> "StopMessage", content |-> c, source |-> s]

MsgA ==
  TextMessage(<<Text("Here is some code"), Fence("python"), Text("a1"), Fence(""),
                Fence("sh"), Text("a2"), Fence("")>>, "user")

MsgB == TextMessage(<<Fence("python"), Text("b1"), Fence(""), Text("done")>>, "coder")

MsgN == TextMessage(<<Text("no code here")>>, "user")

MsgU == TextMessage(<<Text("unfinished"), Fence("sh"), Text("u1")>>, "coder")

MsgS == StopMessage(<<Fence("sh"), Text("s1"), Fence("")>>, "coder")

Pool == {MsgA, MsgB, MsgN, MsgU, MsgS}

RECURSIVE SeqsUpTo(_, _)
SeqsUpTo(S, n) ==
  IF n = 0 THEN {<<>>}
  ELSE LET shorter == SeqsUpTo(S, n - 1)
       IN  shorter \cup {Append(s, x) : s \in {t \in shorter : Len(t) = n - 1}, x \in S}

Batches == SeqsUpTo(Pool, MaxMsgs)

ConcBatches == {<<MsgA>>, <<MsgB>>, <<MsgS, MsgB, MsgA>>, <<MsgN, MsgS>>}

Results ==
  { [exit_code |-> 0, output |-> "Hello world"],
    [exit_code |-> 1, output |-> "Traceback"],
    [exit_code |-> 0, output |-> ""],
    [exit_code |-> 1, output |-> ""] }

Failures == {"CancelledError", "RuntimeError"}

----------------------------------------------------------------------------
(* extract_markdown_code_blocks: a block is an opening fence line, the     *)
(* lines up to the next fence line, and that fence line; an opening fence  *)
(* that is never closed yields no block.                                   *)

CodeBlock(code, language) == [code |-> code, language |-> language]

RECURSIVE NextFence(_, _)
NextFence(content, i) ==
  IF i > Len(content) THEN 0
  ELSE IF content[i].kind = "fence" THEN i
  ELSE NextFence(content, i + 1)

RECURSIVE ScanBlocks(_, _)
ScanBlocks(content, i) ==
  LET open == NextFence(content, i)
      close == IF open = 0 THEN 0 ELSE NextFence(content, open + 1)
  IN  IF open = 0 \/ close = 0 THEN <<>>
      ELSE <<CodeBlock(SubSeq(content, open + 1, close - 1), content[open].lang)>>
           \o ScanBlocks(content, close + 1)

extract_markdown_code_blocks(content) == ScanBlocks(content, 1)

----------------------------------------------------------------------------
(* on_messages, lines 77-86: the pure parts *)

isinstance_TextMessage_any(msg) == TRUE

isinstance_TextMessage(msg) == msg.type = "TextMessage"

RECURSIVE ExtendLoop_prepend(_, _, _)
ExtendLoop_prepend(messages, i, code_blocks) ==
  IF i > Len(messages) THEN code_blocks
  ELSE ExtendLoop_prepend(messages, i + 1,
                  IF isinstance_TextMessage(messages[i])
                  THEN extract_markdown_code_blocks(messages[i].content) \o code_blocks
                  ELSE code_blocks)

RECURSIVE ExtendLoop(_, _, _)
ExtendLoop(messages, i, code_blocks) ==
  IF i > Len(messages) THEN code_blocks
  ELSE ExtendLoop(messages, i + 1,
                  IF isinstance_TextMessage(messages[i])
                  THEN code_blocks \o extract_markdown_code_blocks(messages[i].content)
                  ELSE code_blocks)

collect_code_blocks_prepend(messages) == ExtendLoop_prepend(messages, 1, <<>>)

collect_code_blocks(messages) == ExtendLoop(messages, 1, <<>>)

Pending == [kind |-> "pending", exit_code |-> 0, output |-> "", failure |-> ""]

Invocation(code_blocks, cancellation_token) ==
  [code_blocks |-> code_blocks, cancellation_token |-> cancellation_token,
   cancelled_on_entry |-> cancelled[cancellation_token], outcome |-> Pending]

Invocations_per_block(code_blocks, cancellation_token) ==
  [i \in 1..Len(code_blocks) |-> Invocation(<<code_blocks[i]>>, cancellation_token)]

Invocations(code_blocks, cancellation_token) ==
  << Invocation(code_blocks, cancellation_token) >>

Response(content, source) ==
  [chat_message |-> [type |-> "TextMessage", content |-> content, source |-> source]]

ResultReply_by_status(self, result) ==
  IF result.exit_code = 0 THEN Response(result.output, self.name)
  ELSE Response("Execution failed.", self.name)

ResultReply(self, result) == Response(result.output, self.name)

NoCodeReply_other(self) == Response("No code blocks found.", self.name)

NoCodeReply(self) == Response("No code blocks found in the thread.", self.name)

----------------------------------------------------------------------------
(* State *)

Idle ==
  [op |-> "none", pc |-> "idle", messages |-> <<>>, cancellation_token |-> "none",
   code_blocks |-> <<>>, ret |-> <<>>, exc |-> "", epoch |-> 0]

InitAgent ==
  /\ agent = [name |-> AgentName, description |-> DefaultDescription,
              code_executor |-> "executor"]
  /\ cancelled = [t \in Tokens |-> FALSE]
  /\ resets = 0

Init ==
  /\ InitAgent
  /\ calls = [c \in Sites |-> Idle]
  /\ executed = [c \in Sites |-> <<>>]

InitConc ==
  /\ InitAgent
  /\ calls = [c \in ConcSites |-> Idle]
  /\ executed = [c \in ConcSites |-> <<>>]

----------------------------------------------------------------------------
(* Operations *)

produced_message_types_two(c) ==
  /\ calls[c].pc = "idle"
  /\ calls' = [calls EXCEPT ![c] =
                 [Idle EXCEPT !.op = "produced_message_types", !.pc = "returned",
                              !.ret = << <<"TextMessage", "StopMessage">> >>,
                              !.epoch = resets]]
  /\ executed' = [executed EXCEPT ![c] = <<>>]
  /\ UNCHANGED <<agent, cancelled, resets>>

produced_message_types(c) ==
  /\ calls[c].pc = "idle"
  /\ calls' = [calls EXCEPT ![c] =
                 [Idle EXCEPT !.op = "produced_message_types", !.pc = "returned",
                              !.ret = << <<"TextMessage">> >>, !.epoch = resets]]
  /\ executed' = [executed EXCEPT ![c] = <<>>]
  /\ UNCHANGED <<agent, cancelled, resets>>

\* Lines 81-86, entered with the code blocks lines 77-80 collected.
Branch(c, messages, cancellation_token, code_blocks) ==
  LET frame == [Idle EXCEPT !.op = "on_messages", !.messages = messages,
                            !.cancellation_token = cancellation_token,
                            !.code_blocks = code_blocks, !.epoch = resets]
  IN  IF code_blocks # <<>>
      THEN /\ calls' = [calls EXCEPT ![c] = [frame EXCEPT !.pc = "awaiting"]]
           /\ executed' = [executed EXCEPT ![c] =
                             Invocations(code_blocks, cancellation_token)]
      ELSE /\ calls' = [calls EXCEPT ![c] =
                          [frame EXCEPT !.pc = "returned",
                                        !.ret = <<NoCodeReply(agent)>>]]
           /\ executed' = [executed EXCEPT ![c] = <<>>]

RECURSIVE BlocksInFlight(_)
BlocksInFlight(S) ==
  IF S = {} THEN <<>>
  ELSE LET d == CHOOSE x \in S : TRUE
       IN  (IF calls[d].pc = "awaiting" THEN calls[d].code_blocks ELSE <<>>)
           \o BlocksInFlight(S \ {d})

on_messages_shared_list(c, messages, cancellation_token) ==
  /\ calls[c].pc = "idle"
  /\ Branch(c, messages, cancellation_token,
            BlocksInFlight(DOMAIN calls \ {c}) \o collect_code_blocks(messages))
  /\ UNCHANGED <<agent, cancelled, resets>>

on_messages_checks_token(c, messages, cancellation_token) ==
  /\ calls[c].pc = "idle"
  /\ IF cancelled[cancellation_token]
     THEN /\ calls' = [calls EXCEPT ![c] =
                         [Idle EXCEPT !.op = "on_messages", !.pc = "raised",
                                      !.messages = messages,
                                      !.cancellation_token = cancellation_token,
                                      !.exc = "CancelledError", !.epoch = resets]]
          /\ executed' = [executed EXCEPT ![c] = <<>>]
     ELSE Branch(c, messages, cancellation_token, collect_code_blocks(messages))
  /\ UNCHANGED <<agent, cancelled, resets>>

on_messages(c, messages, cancellation_token) ==
  /\ calls[c].pc = "idle"
  /\ Branch(c, messages, cancellation_token, collect_code_blocks(messages))
  /\ UNCHANGED <<agent, cancelled, resets>>

\* The executor returns `result`; line 83 binds it and line 84 returns.
execute_code_blocks_returns(c, result) ==
  /\ calls[c].pc = "awaiting"
  /\ executed' = [executed EXCEPT ![c][Len(executed[c])].outcome =
                    [kind |-> "returned", exit_code |-> result.exit_code,
                     output |-> result.output, failure |-> ""]]
  /\ calls' = [calls EXCEPT ![c] =
                 [@ EXCEPT !.pc = "returned", !.ret = <<ResultReply(agent, result)>>]]
  /\ UNCHANGED <<agent, cancelled, resets>>

execute_code_blocks_raises_swallowed(c, failure) ==
  /\ calls[c].pc = "awaiting"
  /\ executed' = [executed EXCEPT ![c][Len(executed[c])].outcome =
                    [kind |-> "raised", exit_code |-> 0, output |-> "",
                     failure |-> failure]]
  /\ calls' = [calls EXCEPT ![c] =
                 [@ EXCEPT !.pc = "returned", !.ret = <<NoCodeReply(agent)>>]]
  /\ UNCHANGED <<agent, cancelled, resets>>

\* The executor raises `failure` (an error or a cancellation) at line 83.
execute_code_blocks_raises(c, failure) ==
  /\ calls[c].pc = "awaiting"
  /\ executed' = [executed EXCEPT ![c][Len(executed[c])].outcome =
                    [kind |-> "raised", exit_code |-> 0, output |-> "",
                     failure |-> failure]]
  /\ calls' = [calls EXCEPT ![c] = [@ EXCEPT !.pc = "raised", !.exc = failure]]
  /\ UNCHANGED <<agent, cancelled, resets>>

on_reset_clears_name(c, cancellation_token) ==
  /\ calls[c].pc = "idle"
  /\ resets < MaxResets
  /\ calls' = [calls EXCEPT ![c] =
                 [Idle EXCEPT !.op = "on_reset", !.pc = "returned",
                              !.cancellation_token = cancellation_token,
                              !.ret = <<"None">>, !.epoch = resets]]
  /\ executed' = [executed EXCEPT ![c] = <<>>]
  /\ resets' = resets + 1
  /\ agent' = [agent EXCEPT !.name = ""]
  /\ UNCHANGED cancelled

on_reset(c, cancellation_token) ==
  /\ calls[c].pc = "idle"
  /\ resets < MaxResets
  /\ calls' = [calls EXCEPT ![c] =
                 [Idle EXCEPT !.op = "on_reset", !.pc = "returned",
                              !.cancellation_token = cancellation_token,
                              !.ret = <<"None">>, !.epoch = resets]]
  /\ executed' = [executed EXCEPT ![c] = <<>>]
  /\ resets' = resets + 1
  /\ UNCHANGED <<agent, cancelled>>

\* The owner of a token cancels it, before or during a call that carries it.
Cancel(t) ==
  /\ ~cancelled[t]
  /\ cancelled' = [cancelled EXCEPT ![t] = TRUE]
  /\ UNCHANGED <<agent, calls, executed, resets>>

\* The caller takes the outcome; the call site is free for the next call.
Collect(c) ==
  /\ calls[c].pc \in {"returned", "raised"}
  /\ calls' = [calls EXCEPT ![c] = Idle]
  /\ executed' = [executed EXCEPT ![c] = <<>>]
  /\ UNCHANGED <<agent, cancelled, resets>>

Next ==
  \/ \E c \in Sites : produced_message_types(c)
  \/ \E c \in Sites, messages \in Batches, t \in Tokens : on_messages(c, messages, t)
  \/ \E c \in Sites, result \in Results : execute_code_blocks_returns(c, result)
  \/ \E c \in Sites, failure \in Failures : execute_code_blocks_raises(c, failure)
  \/ \E c \in Sites, t \in Tokens : on_reset(c, t)
  \/ \E t \in Tokens : Cancel(t)
  \/ \E c \in Sites : Collect(c)

Spec == Init /\ [][Next]_vars

NextConc ==
  \/ \E c \in ConcSites : produced_message_types(c)
  \/ \E c \in ConcSites, messages \in ConcBatches, t \in Tokens :
       on_messages(c, messages, t)
  \/ \E c \in ConcSites, result \in Results : execute_code_blocks_returns(c, result)
  \/ \E c \in ConcSites, failure \in Failures : execute_code_blocks_raises(c, failure)
  \/ \E c \in ConcSites, t \in Tokens : on_reset(c, t)
  \/ \E t \in Tokens : Cancel(t)
  \/ \E c \in ConcSites : Collect(c)

SpecConc == InitConc /\ [][NextConc]_vars

----------------------------------------------------------------------------
(* What the callers and the executor can observe, stated without the       *)
(* operators above that model on_messages.                                 *)

OnMessagesCalls == {c \in DOMAIN calls : calls[c].op = "on_messages"}

IsText(m) == m.type = "TextMessage"

BlocksOf(m) == IF IsText(m) THEN extract_markdown_code_blocks(m.content) ELSE <<>>

\* The number of code blocks in the messages before the i-th.
RECURSIVE Offset(_, _)
Offset(messages, i) ==
  IF i <= 1 THEN 0 ELSE Offset(messages, i - 1) + Len(BlocksOf(messages[i - 1]))

TotalBlocks(messages) == Offset(messages, Len(messages) + 1)

HasNoCode(messages) ==
  \A i \in 1..Len(messages) :
    ~IsText(messages[i]) \/ extract_markdown_code_blocks(messages[i].content) = <<>>

RECURSIVE Flat(_)
Flat(texts) ==
  IF texts = <<>> THEN <<>>
  ELSE extract_markdown_code_blocks(Head(texts).content) \o Flat(Tail(texts))

FixedReply ==
  [chat_message |-> [type |-> "TextMessage",
                     content |-> "No code blocks found in the thread.",
                     source |-> AgentName]]

OutputReply(outcome) ==
  [chat_message |-> [type |-> "TextMessage", content |-> outcome.output,
                     source |-> AgentName]]

ExecutorRaised(c) == executed[c] # <<>> /\ executed[c][1].outcome.kind = "raised"

ExecutorReturned(c) == executed[c] # <<>> /\ executed[c][1].outcome.kind = "returned"

----------------------------------------------------------------------------
(* Claims *)

\* C1: a call of on_messages whose batch yields no code block (an empty
\* batch, only non-text messages, text without a complete fence) returns at
\* once the Response with content "No code blocks found in the thread." and
\* the agent's name as source, and the executor is not invoked in that call.
C1_NoCodeBlocksReply ==
  \A c \in OnMessagesCalls :
    HasNoCode(calls[c].messages) =>
      /\ calls[c].pc = "returned"
      /\ calls[c].ret = <<FixedReply>>
      /\ calls[c].exc = ""
      /\ executed[c] = <<>>

C1_Witness ==
  \E c \in OnMessagesCalls :
    /\ HasNoCode(calls[c].messages)
    /\ \E i \in 1..Len(calls[c].messages) : ~IsText(calls[c].messages[i])
    /\ \E i \in 1..Len(calls[c].messages) : IsText(calls[c].messages[i])
    /\ calls[c].pc = "returned"
    /\ calls[c].ret = <<FixedReply>>

\* C2: a call of on_messages whose batch yields at least one code block
\* invokes the executor exactly once, with all the blocks of the batch in
\* that one invocation, and when the executor returns a result the call
\* returns the Response whose content is the result's output and whose
\* source is the agent's name.
C2_OneInvocationForTheBatch ==
  \A c \in OnMessagesCalls :
    TotalBlocks(calls[c].messages) > 0 =>
      /\ Len(executed[c]) = 1
      /\ Len(executed[c][1].code_blocks) = TotalBlocks(calls[c].messages)
      /\ calls[c].pc \in {"awaiting", "returned", "raised"}
      /\ calls[c].pc = "awaiting" <=> executed[c][1].outcome.kind = "pending"
      /\ ExecutorReturned(c) =>
           /\ calls[c].pc = "returned"
           /\ calls[c].ret = <<OutputReply(executed[c][1].outcome)>>

C2_Witness ==
  \E c \in OnMessagesCalls :
    /\ Cardinality({i \in 1..Len(calls[c].messages) :
                      BlocksOf(calls[c].messages[i]) # <<>>}) >= 2
    /\ Len(executed[c]) = 1
    /\ Len(executed[c][1].code_blocks) >= 3
    /\ calls[c].pc = "returned"
    /\ calls[c].ret = <<OutputReply([output |-> "Hello world"])>>

\* C3: the blocks handed to the executor are the blocks of the text
\* messages in message order, each message's blocks in their order in the
\* message: the j-th block of the i-th message stands at position
\* (number of blocks of the earlier messages) + j, and nothing else is
\* handed over; message A with blocks a1, a2 followed by message B with
\* block b1 gives a1, a2, b1.
C3_BlocksInMessageOrder ==
  \A c \in OnMessagesCalls :
    executed[c] # <<>> =>
      LET given == executed[c][1].code_blocks
          messages == calls[c].messages
      IN  /\ Len(given) = TotalBlocks(messages)
          /\ \A i \in 1..Len(messages) :
               \A j \in 1..Len(BlocksOf(messages[i])) :
                 given[Offset(messages, i) + j] = BlocksOf(messages[i])[j]
          /\ messages = <<MsgA, MsgB>> =>
               given = << [code |-> <<Text("a1")>>, language |-> "python"],
                          [code |-> <<Text("a2")>>, language |-> "sh"],
                          [code |-> <<Text("b1")>>, language |-> "python"] >>

C3_Witness ==
  \E c \in OnMessagesCalls :
    /\ calls[c].messages = <<MsgA, MsgB>>
    /\ Len(executed[c]) = 1
    /\ executed[c][1].code_blocks[1].code = <<Text("a1")>>
    /\ executed[c][1].code_blocks[3].code = <<Text("b1")>>

\* C4: when the executor invocation fails or is cancelled, on_messages ends
\* with that same failure, returns no Response (neither the "No code blocks
\* found" reply nor another) and has invoked the executor once only; and
\* on_messages ends with a failure only when the executor raised it.
C4_ExecutorFailurePropagates ==
  \A c \in OnMessagesCalls :
    /\ ExecutorRaised(c) =>
         /\ calls[c].pc = "raised"
         /\ calls[c].exc = executed[c][1].outcome.failure
         /\ calls[c].ret = <<>>
         /\ Len(executed[c]) = 1
    /\ calls[c].pc = "raised" => ExecutorRaised(c)

C4_Witness ==
  \E c \in OnMessagesCalls :
    /\ ExecutorRaised(c)
    /\ executed[c][1].outcome.failure = "CancelledError"
    /\ calls[c].pc = "raised"
    /\ calls[c].exc = "CancelledError"

\* C5: messages that are not TextMessage contribute nothing and never make
\* on_messages fail: the executor is handed, and the call replies, exactly
\* as for the batch with the non-text messages removed, whatever they hold.
C5_NonTextMessagesIgnored ==
  \A c \in OnMessagesCalls :
    LET texts == SelectSeq(calls[c].messages, IsText)
    IN  /\ Flat(texts) = <<>> =>
             executed[c] = <<>> /\ calls[c].ret = <<FixedReply>>
        /\ Flat(texts) # <<>> =>
             /\ executed[c] # <<>>
             /\ executed[c][1].code_blocks = Flat(texts)
             /\ calls[c].pc = "raised" <=> ExecutorRaised(c)

C5_Witness ==
  \E c \in OnMessagesCalls :
    /\ \E i \in 1..Len(calls[c].messages) :
         /\ ~IsText(calls[c].messages[i])
         /\ extract_markdown_code_blocks(calls[c].messages[i].content) # <<>>
    /\ Flat(SelectSeq(calls[c].messages, IsText)) # <<>>
    /\ executed[c] # <<>>
    /\ calls[c].pc = "returned"

\* C6: on_reset returns None without raising, invokes no executor and
\* leaves the agent as constructed, so that a call of on_messages made
\* after any number of on_reset calls hands the executor the blocks of its
\* batch and replies as a call made before any reset does.
C6_ResetChangesNothing ==
  /\ agent = [name |-> AgentName, description |-> DefaultDescription,
              code_executor |-> "executor"]
  /\ \A c \in DOMAIN calls :
       calls[c].op = "on_reset" =>
         /\ calls[c].pc = "returned"
         /\ calls[c].ret = <<"None">>
         /\ calls[c].exc = ""
         /\ executed[c] = <<>>
  /\ \A c \in OnMessagesCalls :
       LET messages == calls[c].messages
           blocks == Flat(SelectSeq(messages, IsText))
       IN  calls[c].epoch >= 1 =>
             /\ blocks = <<>> =>
                  calls[c].ret = <<FixedReply>> /\ executed[c] = <<>>
             /\ blocks # <<>> =>
                  /\ Len(executed[c]) = 1
                  /\ executed[c][1].code_blocks = blocks
                  /\ calls[c].pc = "returned" =>
                       calls[c].ret = <<OutputReply(executed[c][1].outcome)>>

C6_Witness ==
  \E c \in OnMessagesCalls :
    /\ calls[c].epoch = MaxResets
    /\ ExecutorReturned(c)
    /\ calls[c].pc = "returned"
    /\ calls[c].ret = <<OutputReply(executed[c][1].outcome)>>

\* C7: with several on_messages calls in flight at once, each call hands
\* the executor exactly the blocks of its own batch with its own token, and
\* replies from the outcome of its own executor invocation.
C7_CallsDoNotInterfere ==
  \A c \in OnMessagesCalls :
    LET own == Flat(SelectSeq(calls[c].messages, IsText))
    IN  /\ Len(executed[c]) = (IF own = <<>> THEN 0 ELSE 1)
        /\ \A k \in 1..Len(executed[c]) :
             /\ executed[c][k].code_blocks = own
             /\ executed[c][k].cancellation_token = calls[c].cancellation_token
        /\ calls[c].pc = "returned" =>
             calls[c].ret = IF own = <<>> THEN <<FixedReply>>
                            ELSE <<OutputReply(executed[c][1].outcome)>>
        /\ calls[c].pc = "raised" =>
             own # <<>> /\ calls[c].exc = executed[c][1].outcome.failure

C7_Witness ==
  \E c, d \in OnMessagesCalls :
    /\ c # d
    /\ calls[c].pc = "awaiting"
    /\ calls[d].pc = "awaiting"
    /\ calls[c].messages # calls[d].messages
    /\ executed[c][1].code_blocks # executed[d][1].code_blocks
    /\ calls[c].cancellation_token # calls[d].cancellation_token

\* C8: produced_message_types returns the one-element list [TextMessage]
\* whatever calls came before it, and every reply on_messages returns is a
\* TextMessage.
C8_ProducesTextMessageOnly ==
  /\ \A c \in DOMAIN calls :
       calls[c].op = "produced_message_types" =>
         /\ calls[c].pc = "returned"
         /\ calls[c].ret = << <<"TextMessage">> >>
         /\ executed[c] = <<>>
  /\ \A c \in OnMessagesCalls :
       calls[c].pc = "returned" =>
         /\ Len(calls[c].ret) = 1
         /\ calls[c].ret[1].chat_message.type = "TextMessage"

C8_Witness ==
  \E c \in DOMAIN calls :
    /\ calls[c].op = "produced_message_types"
    /\ calls[c].epoch >= 1
    /\ calls[c].ret = << <<"TextMessage">> >>

\* C9: the executor receives the very token the caller supplied, and
\* on_messages never looks at it: also with a token that is already
\* cancelled, a batch with blocks reaches the executor, a batch without
\* blocks gets the fixed reply, and the call raises only what the executor
\* raised.
C9_TokenPassedThrough ==
  \A c \in OnMessagesCalls :
    /\ \A k \in 1..Len(executed[c]) :
         executed[c][k].cancellation_token = calls[c].cancellation_token
    /\ ~HasNoCode(calls[c].messages) => executed[c] # <<>>
    /\ HasNoCode(calls[c].messages) =>
         calls[c].pc = "returned" /\ calls[c].ret = <<FixedReply>>
    /\ calls[c].pc = "raised" =>
         ExecutorRaised(c) /\ calls[c].exc = executed[c][1].outcome.failure

C9_Witness ==
  \E c \in OnMessagesCalls :
    /\ executed[c] # <<>>
    /\ executed[c][1].cancelled_on_entry
    /\ executed[c][1].cancellation_token = calls[c].cancellation_token
    /\ cancelled[calls[c].cancellation_token]
    /\ calls[c].pc = "returned"

\* C10: when the executor returns a result, on_messages returns the
\* Response with the result's output whatever the result's exit code: a
\* non-zero exit code raises nothing and changes neither the reply's type
\* nor its source, and an empty output gives one reply with empty content.
C10_ExitCodeNotInterpreted ==
  \A c \in OnMessagesCalls :
    ExecutorReturned(c) =>
      LET outcome == executed[c][1].outcome
      IN  /\ outcome.exit_code # 0 =>
               /\ calls[c].pc = "returned"
               /\ calls[c].exc = ""
               /\ Len(calls[c].ret) = 1
               /\ calls[c].ret[1].chat_message.content = outcome.output
               /\ calls[c].ret[1].chat_message.source = AgentName
               /\ calls[c].ret[1].chat_message.type = "TextMessage"
          /\ outcome.output = "" =>
               /\ Len(calls[c].ret) = 1
               /\ calls[c].ret[1].chat_message.content = ""

C10_Witness ==
  \E c \in OnMessagesCalls :
    /\ ExecutorReturned(c)
    /\ executed[c][1].outcome.exit_code = 1
    /\ executed[c][1].outcome.output = "Traceback"
    /\ calls[c].pc = "returned"
    /\ calls[c].ret[1].chat_message.content = "Traceback"

====
